---- MODULE Spec2Model ----
(***************************************************************************)
(* A model of sage/combinat/designs/block_design.py: the parameter         *)
(* deriver (tdesign_params), the geometry enumerator                       *)
(* (ProjectiveGeometryDesign), the Desarguesian plane builder, the         *)
(* plane/orthogonal-array converters, the plane existence dispatcher       *)
(* (projective_plane) and the BlockDesign wrapper.                         *)
(*                                                                         *)
(* Python lists are sequences, raised exceptions are results of kind       *)
(* "error".  Collaborators that live outside block_design.py (the finite   *)
(* field, the vector space, the number-theory predicates, the incidence    *)
(* structure class, is_orthogonal_array) are modelled by their             *)
(* mathematical contract.                                                  *)
(***************************************************************************)
EXTENDS Integers, Sequences, FiniteSets, TLC

VARIABLES
    pc,          \* position of the calling session
    sortsBlocks, \* whether the incidence structure stores its blocks sorted
    trail,       \* the calls made so far, oldest first
    result,      \* what the last call returned or raised
    pplane,      \* the design object the session holds (its v and blcks)
    oa           \* the orthogonal array the session holds

vars == <<pc, sortsBlocks, trail, result, pplane, oa>>

(***************************************************************************)
(* Bounds of the explored inputs.                                          *)
(***************************************************************************)
MaxFieldOrder == 5      \* DesarguesianProjectivePlaneDesign(n), n in 1..MaxFieldOrder
MaxOrder == 14          \* projective_plane(n), n in MinOrder..MaxOrder
MaxV == 7               \* tdesign_params: v in 1..MaxV
MaxLambda == 2          \* tdesign_params: L in 1..MaxLambda
MaxDim == 3             \* ProjectiveGeometryDesign: n in 1..MaxDim
MaxUserOrder == 2       \* order of the planes a caller alters before BlockDesign
MaxVectors == 27        \* ProjectiveGeometryDesign: at most MaxVectors vectors in F^(n+1)

MinOrder == 0 - 1

(***************************************************************************)
(* Sequences as Python lists.                                              *)
(***************************************************************************)
Range(s) == {s[i] : i \in 1..Len(s)}

Contains(s, x) == \E i \in 1..Len(s) : s[i] = x

\* list.index(x), 1-based; 0 when absent
IndexOf(s, x) ==
    IF Contains(s, x) THEN CHOOSE i \in 1..Len(s) : s[i] = x /\ \A j \in 1..(i-1) : s[j] # x
    ELSE 0

\* list.remove(x) on a list containing x: drops the first occurrence
Remove(s, x) ==
    LET k == IndexOf(s, x)
    IN  [i \in 1..(Len(s) - 1) |-> IF i < k THEN s[i] ELSE s[i + 1]]

RECURSIVE LexLess(_, _)
\* Python's < on lists (and tuples) of integers
LexLess(a, b) ==
    IF Len(b) = 0 THEN FALSE
    ELSE IF Len(a) = 0 THEN TRUE
    ELSE IF a[1] < b[1] THEN TRUE
    ELSE IF a[1] > b[1] THEN FALSE
    ELSE LexLess(Tail(a), Tail(b))

\* the function f with every value computed once (an explicit table)
Table(f) == f @@ <<>>

\* sorted(l) for a list of lists or tuples of integers: the element at position k
\* is the one with k-1 elements before it in the order (equal elements keep
\* their relative order)
Sorted(s) ==
    LET rank == Table([i \in 1..Len(s) |->
                    Cardinality({j \in 1..Len(s) : LexLess(s[j], s[i])})
                    + Cardinality({j \in 1..(i - 1) : s[j] = s[i]}) + 1])
    IN  [k \in 1..Len(s) |-> s[CHOOSE i \in 1..Len(s) : rank[i] = k]]

\* sorted(l) for a list of integers
SortedInts(s) ==
    LET rank == Table([i \in 1..Len(s) |->
                    Cardinality({j \in 1..Len(s) : s[j] < s[i]})
                    + Cardinality({j \in 1..(i - 1) : s[j] = s[i]}) + 1])
    IN  [k \in 1..Len(s) |-> s[CHOOSE i \in 1..Len(s) : rank[i] = k]]

\* the elements of a set of integers in increasing order
Ascending(S) ==
    [k \in 1..Cardinality(S) |-> CHOOSE x \in S : Cardinality({y \in S : y < x}) = k - 1]

Err(e) == [kind |-> "error", err |-> e]

(***************************************************************************)
(* Number theory (sage.rings.arith).                                       *)
(***************************************************************************)
RECURSIVE Pow(_, _)
Pow(b, e) == IF e = 0 THEN 1 ELSE b * Pow(b, e - 1)

SmallestFactor(n) == CHOOSE d \in 2..n : n % d = 0 /\ \A e \in 2..(d-1) : n % e # 0

RECURSIVE LogOf(_, _)
\* the k with p^k = n; negative when n is no power of p
LogOf(n, p) ==
    IF n = 1 THEN 0
    ELSE IF n % p # 0 THEN 0 - 100
    ELSE 1 + LogOf(n \div p, p)

is_prime_power(n) == n >= 2 /\ LogOf(n, SmallestFactor(n)) >= 1

\* two_squares(n) returns a pair when one exists and raises ValueError otherwise
two_squares_exists(n) == \E a \in 0..n : \E b \in a..n : a * a + b * b = n

RECURSIVE binomial(_, _)
binomial(n, k) ==
    IF k < 0 \/ k > n THEN 0
    ELSE IF k = 0 THEN 1
    ELSE (binomial(n - 1, k - 1) * n) \div k

\* floor of the exact quotient a/b, b > 0
integer_floor(a, b) == a \div b

(***************************************************************************)
(* The finite field of order n = p^k.  An element is the integer whose     *)
(* base-p digits are the coefficients of its polynomial representative.    *)
(***************************************************************************)
Char(n) == SmallestFactor(n)
Deg(n) == LogOf(n, Char(n))

\* x^k written in the basis 1, x, ..., x^(k-1): the (Conway) modulus of the field
ReductionOf(n) ==
    CASE n = 4 -> 3      \* x^2 = x + 1
      [] n = 8 -> 3      \* x^3 = x + 1
      [] n = 9 -> 4      \* x^2 = x + 1  (x^2 + 2x + 2 = 0)
      [] n = 16 -> 3     \* x^4 = x + 1
      [] OTHER -> 0

RECURSIVE AddDigits(_, _, _)
AddDigits(a, b, p) ==
    IF a = 0 /\ b = 0 THEN 0
    ELSE (((a % p) + (b % p)) % p) + p * AddDigits(a \div p, b \div p, p)

RECURSIVE ScaleDigits(_, _, _)
ScaleDigits(c, a, p) ==
    IF a = 0 THEN 0
    ELSE ((c * (a % p)) % p) + p * ScaleDigits(c, a \div p, p)

FAdd(n, a, b) == AddDigits(a, b, Char(n))

\* multiplication by the generator x
FMulX(n, a) ==
    LET p == Char(n)
        top == a \div (n \div p)
        low == (a % (n \div p)) * p
    IN  AddDigits(low, ScaleDigits(top, ReductionOf(n), p), p)

RECURSIVE FMul(_, _, _)
FMul(n, a, b) ==
    LET p == Char(n)
    IN  IF b = 0 THEN 0
        ELSE IF b < p THEN ScaleDigits(b, a, p)
        ELSE AddDigits(ScaleDigits(b % p, a, p), FMulX(n, FMul(n, a, b \div p)), p)

RECURSIVE GenPowers(_, _, _)
GenPowers(n, g, count) ==
    IF count = 0 THEN <<>> ELSE <<g>> \o GenPowers(n, FMulX(n, g), count - 1)

\* list(K): a prime field iterates 0, 1, ..., p-1; an extension field iterates 0
\* and then the successive powers x, x^2, ..., x^(n-1) = 1 of its generator
FieldElements(n) ==
    IF Deg(n) = 1 THEN [i \in 1..n |-> i - 1]
    ELSE <<0>> \o GenPowers(n, Char(n), n - 1)

(***************************************************************************)
(* tdesign_params(t, v, k, L)                                              *)
(***************************************************************************)
\* r floored before it is multiplied by L
tdesign_params_early_floor(t, v, k, L) ==
    LET b == (L * binomial(v, t)) \div binomial(k, t)
        r == L * (binomial(v - 1, t - 1) \div binomial(k - 1, t - 1))
    IN  [kind |-> "params", val |-> <<t, v, b, r, k, L>>]

tdesign_params(t, v, k, L) ==
    LET x1 == binomial(v, t)
        y1 == binomial(k, t)
        b == (L * x1) \div y1
        x2 == binomial(v - 1, t - 1)
        y2 == binomial(k - 1, t - 1)
        r == integer_floor(L * x2, y2)
    IN  [kind |-> "params", val |-> <<t, v, b, r, k, L>>]

(***************************************************************************)
(* The incidence structure and BlockDesign(max_pt, blks, name, test).      *)
(***************************************************************************)
Design(v, blcks) == [kind |-> "design", v |-> v, blcks |-> blcks]

\* BlockDesign_generic(range(max_pt), blks): the stored block list.  Whether the
\* class keeps the blocks as given or sorts them is decided outside this file.
IncidenceStructure(max_pt, blks, sorts) ==
    Design(max_pt,
           IF sorts THEN Sorted(Table([i \in 1..Len(blks) |-> SortedInts(blks[i])])) ELSE blks)

\* The design invariant: blocks of one size within the point set, every
\* point on the same number of blocks, every pair of points in the same number.
is_2_design(v, blks) ==
    LET B == Table([i \in 1..Len(blks) |-> Range(blks[i])])
        I == 1..Len(blks)
        P == 0..(v - 1)
        through(x) == {i \in I : x \in B[i]}
        T == Table([x \in P |-> through(x)])
        lam(x, y) == Cardinality({i \in T[x] : y \in B[i]})
    IN  /\ Len(blks) > 0
        /\ \A i \in I : B[i] \subseteq P /\ Cardinality(B[i]) = Len(blks[i])
        /\ \A i \in I : Len(blks[i]) = Len(blks[1])
        /\ \A x \in P : Cardinality(T[x]) = Cardinality(T[0])
        /\ \A x \in P : \A y \in P : (x < y) => lam(x, y) = lam(0, 1)

\* The possible results of BlockDesign.  With test the parameters are checked by
\* BD.parameters and BD.block_design_checker, which accept every 2-design; what
\* they answer for another structure is not decided by this file.
BlockDesign(max_pt, blks, test, sorts) ==
    LET BD == IncidenceStructure(max_pt, blks, sorts)
    IN  IF ~test THEN {BD}
        ELSE IF is_2_design(max_pt, blks) THEN {BD}
        ELSE {BD, Err("TypeError")}

(***************************************************************************)
(* DesarguesianProjectivePlaneDesign(n, check)                             *)
(***************************************************************************)
\* relabel = {x:i for i,x in enumerate(K)}
FieldRelabel(n) ==
    LET K == FieldElements(n)
    IN  Table([x \in 0..(n - 1) |-> IndexOf(K, x) - 1])

\* the n^2 lines x = sy + az, each with its point at infinity n^2 + relabel[s]
SlopedLines(n) ==
    LET K == FieldElements(n)
        relabel == FieldRelabel(n)
        line(s, a) == [yi \in 1..(n + 1) |->
                          IF yi <= n
                          THEN relabel[FAdd(n, FMul(n, s, K[yi]), a)] + n * relabel[K[yi]]
                          ELSE n * n + relabel[s]]
    IN  [i \in 1..(n * n) |-> line(K[((i - 1) \div n) + 1], K[((i - 1) % n) + 1])]

\* the n horizontals y = az, each with the point (1:0:0), labelled n^2 + n
Horizontals(n) ==
    LET K == FieldElements(n)
        relabel == FieldRelabel(n)
    IN  [ai \in 1..n |->
            [xi \in 1..(n + 1) |->
                IF xi <= n THEN relabel[K[xi]] + n * relabel[K[ai]] ELSE n * n + n]]

InfinityLineShort(n) == [i \in 1..n |-> n * n + (i - 1)]

\* the line at infinity: [n2 + i for i in xrange(n+1)]
InfinityLine(n) == [i \in 1..(n + 1) |-> n * n + (i - 1)]

DesarguesianBlocks(n) == SlopedLines(n) \o Horizontals(n) \o <<InfinityLine(n)>>

DesarguesianProjectivePlaneDesign(n, check, sorts) ==
    IF ~is_prime_power(n) THEN {Err("ValueError")}
    ELSE BlockDesign(n * n + n + 1, DesarguesianBlocks(n), check, sorts)

(***************************************************************************)
(* projective_plane_to_OA(pplane, pt, check)                               *)
(***************************************************************************)
None == 0 - 1    \* pt=None

Array(rows) == [kind |-> "array", rows |-> rows]

\* is_orthogonal_array(OA, k, n, 2): a predicate, it answers and does not raise
is_orthogonal_array(OA, k, n) ==
    /\ Len(OA) = n * n
    /\ \A r \in 1..Len(OA) : Len(OA[r]) = k /\ Range(OA[r]) \subseteq 0..(n - 1)
    /\ \A c1 \in 1..k : \A c2 \in (c1 + 1)..k :
          \A a \in 0..(n - 1) : \A b \in 0..(n - 1) :
              Cardinality({r \in 1..Len(OA) : OA[r][c1] = a /\ OA[r][c2] = b}) = 1

\* dict((x,(j,i)) for j,l in enumerate(L) for i,x in enumerate(l))[x]: the last
\* pair written for the key x
RelabelPair(L, x) ==
    LET j == CHOOSE j1 \in 1..Len(L) :
                 Contains(L[j1], x) /\ \A j2 \in (j1 + 1)..Len(L) : ~Contains(L[j2], x)
        i == CHOOSE i1 \in 1..Len(L[j]) :
                 L[j][i1] = x /\ \A i2 \in (i1 + 1)..Len(L[j]) : L[j][i2] # x
    IN  <<j - 1, i - 1>>

OARowUnsorted(pairs) == [c \in 1..Len(pairs) |-> pairs[c][2]]

\* one row: the pairs (line, position) of a block's points, sorted, and of each
\* the position kept
OARow(pairs) ==
    LET l == Sorted(Table(pairs))
    IN  [c \in 1..Len(l) |-> l[c][2]]

\* the value returned once the block count and the block sizes have passed
OARows(blcks, n, pt, check) ==
    LET through == SelectSeq(blcks, LAMBDA blk : Contains(blk, pt))
        L == Table([j \in 1..Len(through) |-> Remove(through[j], pt)])
        OA0 == SelectSeq(blcks, LAMBDA blk : ~Contains(blk, pt))
        keys == UNION {Range(L[j]) : j \in 1..Len(L)}
        relabel == Table([x \in keys |-> RelabelPair(L, x)])
        OA2 == Table([r \in 1..Len(OA0) |->
                   OARow([c \in 1..Len(OA0[r]) |-> relabel[OA0[r][c]]])])
        \* the answer of is_orthogonal_array is computed and then dropped: the
        \* call is a statement, the value returned below does not read it
        answer == IF check THEN is_orthogonal_array(OA2, n + 1, n) ELSE TRUE
    IN  IF Len(L) # n + 1 THEN Err("AssertionError")
        ELSE IF \E r \in 1..Len(OA0) : ~(Range(OA0[r]) \subseteq keys) THEN Err("KeyError")
        ELSE Array(OA2)

DefaultPointFirst(n) == n * n

\* if pt is None: pt = n**2+n
DefaultPoint(n) == n * n + n

\* without the assertion on the size of each block
projective_plane_to_OA_sizes_unchecked(pl, pt, check) ==
    LET blcks == pl.blcks
        n == Len(blcks[1]) - 1
        p == IF pt = None THEN DefaultPoint(n) ELSE pt
    IN  IF Len(blcks) = 0 THEN Err("IndexError")
        ELSE IF Len(blcks) # n * n + n + 1 THEN Err("AssertionError")
        ELSE OARows(blcks, n, p, check)

projective_plane_to_OA(pl, pt, check) ==
    LET blcks == pl.blcks
        n == Len(blcks[1]) - 1
        p == IF pt = None THEN DefaultPoint(n) ELSE pt
    IN  IF Len(blcks) = 0 THEN Err("IndexError")
        ELSE IF Len(blcks) # n * n + n + 1 THEN Err("AssertionError")
        ELSE IF \E i \in 1..Len(blcks) : Len(blcks[i]) # n + 1 THEN Err("AssertionError")
        ELSE OARows(blcks, n, p, check)

\* b = blk: b names the list that block i of pplane.blcks is
BlkItself(i, fresh) == i

\* b = blk[:]: b names a new list, with the items of block i
BlkSlice(i, fresh) == fresh

\* pplane.blcks once the call is over.  The lists live at addresses: block i of
\* pplane.blcks at address i, the list made for it by the loop at address
\* Len(blcks) + i.  The loop runs when the block count has passed and as far as
\* the first block of a wrong size; for a block through pt it takes b, removes
\* pt from the list b names and appends b to L; the other blocks are only read.
BlocksAfterToOA(pl, pt) ==
    LET blcks == pl.blcks
        N == Len(blcks)
        n == Len(blcks[1]) - 1
        p == IF pt = None THEN DefaultPoint(n) ELSE pt
        bad == {i \in 1..N : Len(blcks[i]) # n + 1}
        stop == IF N = 0 \/ N # n * n + n + 1 THEN 0
                ELSE IF bad = {} THEN N
                ELSE (CHOOSE i \in bad : \A j \in bad : i <= j) - 1
        through == {i \in 1..stop : Contains(blcks[i], p)}
        heap == Table([a \in 1..(2 * N) |->
                    IF \E i \in through : BlkSlice(i, N + i) = a
                    THEN Remove(blcks[CHOOSE i \in through : BlkSlice(i, N + i) = a], p)
                    ELSE IF a <= N THEN blcks[a] ELSE <<>>])
    IN  Table([i \in 1..N |-> heap[i]])

(***************************************************************************)
(* OA_to_projective_plane(OA, check)                                       *)
(***************************************************************************)
\* range(a, b) followed by the point last
GroupLine(a, b, last) ==
    [k \in 1..((IF b > a THEN b - a ELSE 0) + 1) |-> IF k <= b - a THEN a + (k - 1) ELSE last]

TransversalLine(l, n) == [c \in 1..Len(l) |-> (c - 1) + (n + 1) * l[c]]

OAPlaneBlocks(OA, n) ==
    [r \in 1..Len(OA) |-> TransversalLine(OA[r], n)]
    \o [g \in 1..(IF n + 1 > 0 THEN n + 1 ELSE 0) |->
           GroupLine((g - 1) * n, g * n, n * n + n)]

\* without the assertion on the number of rows
OA_to_projective_plane_unasserted(OA, check, sorts) ==
    LET n == Len(OA[1]) - 1
    IN  IF Len(OA) = 0 THEN {Err("IndexError")}
        ELSE BlockDesign(n * n + n + 1, OAPlaneBlocks(OA, n), check, sorts)

OA_to_projective_plane(OA, check, sorts) ==
    LET n == Len(OA[1]) - 1
        n2 == n * n
    IN  IF Len(OA) = 0 THEN {Err("IndexError")}
        ELSE IF Len(OA) # n2 THEN {Err("AssertionError")}
        ELSE BlockDesign(n2 + n + 1, OAPlaneBlocks(OA, n), check, sorts)

(***************************************************************************)
(* projective_plane(n)                                                     *)
(***************************************************************************)
Raise(e, why) == [kind |-> "error", err |-> e, why |-> why]

\* the prime power test made before the Bruck-Ryser-Chowla test
projective_plane_reordered(n, sorts) ==
    IF n <= 1 THEN {Raise("EmptySetError", "order <= 1")}
    ELSE IF n = 10 THEN {Raise("EmptySetError", "order 10")}
    ELSE IF ~is_prime_power(n) THEN {Raise("NotImplementedError", "unknown")}
    ELSE IF (n % 4) \in {1, 2} /\ ~two_squares_exists(n)
         THEN {Raise("EmptySetError", "Ryser-Chowla")}
    ELSE DesarguesianProjectivePlaneDesign(n, TRUE, sorts)

\* without the prime power test made before the field is built
projective_plane_ungated(n, sorts) ==
    IF n <= 1 THEN {Raise("EmptySetError", "order <= 1")}
    ELSE IF n = 10 THEN {Raise("EmptySetError", "order 10")}
    ELSE IF (n % 4) \in {1, 2} /\ ~two_squares_exists(n)
         THEN {Raise("EmptySetError", "Ryser-Chowla")}
    ELSE DesarguesianProjectivePlaneDesign(n, TRUE, sorts)

projective_plane(n, sorts) ==
    IF n <= 1 THEN {Raise("EmptySetError", "order <= 1")}
    ELSE IF n = 10 THEN {Raise("EmptySetError", "order 10")}
    ELSE IF (n % 4) \in {1, 2} /\ ~two_squares_exists(n)
         THEN {Raise("EmptySetError", "Ryser-Chowla")}
    ELSE IF ~is_prime_power(n) THEN {Raise("NotImplementedError", "unknown")}
    ELSE DesarguesianProjectivePlaneDesign(n, TRUE, sorts)

(***************************************************************************)
(* ProjectiveGeometryDesign(n, d, F), algorithm=None.  A vector of F^(n+1) *)
(* is the integer whose base-q digits are its coordinates.                 *)
(***************************************************************************)
RECURSIVE VecAdd(_, _, _)
VecAdd(q, a, b) ==
    IF a = 0 /\ b = 0 THEN 0
    ELSE FAdd(q, a % q, b % q) + q * VecAdd(q, a \div q, b \div q)

RECURSIVE VecScale(_, _, _)
VecScale(q, c, a) ==
    IF a = 0 THEN 0 ELSE FMul(q, c, a % q) + q * VecScale(q, c, a \div q)

\* the subspace spanned by the subspace W and the vector u
Span(q, W, u) == {VecAdd(q, w, VecScale(q, c, u)) : w \in W, c \in 0..(q - 1)}

RECURSIVE SubspaceSet(_, _, _)
SubspaceSet(q, dimV, m) ==
    IF m = 0 THEN {{0}}
    ELSE UNION {{Span(q, W, u) : u \in (0..(Pow(q, dimV) - 1)) \ W} :
                    W \in SubspaceSet(q, dimV, m - 1)}

\* list(V.subspaces(m)): the subspaces in a fixed order (here by their sorted
\* vectors); each is the set of its vectors
subspaces(q, dimV, m) ==
    LET keys == {Ascending(W) : W \in SubspaceSet(q, dimV, m)}
        ordered == [k \in 1..Cardinality(keys) |->
                       CHOOSE a \in keys : Cardinality({b \in keys : LexLess(b, a)}) = k - 1]
    IN  Table([k \in 1..Cardinality(keys) |-> Range(ordered[k])])

is_subspace(p, flat) == p \subseteq flat

\* lines 139-145: the list blcks handed to BlockDesign
GeometryBlocks(points, flats) ==
    LET idx == [i \in 1..Len(flats) |-> i - 1]
    IN  [p \in 1..Len(points) |->
            SelectSeq(idx, LAMBDA i : is_subspace(points[p], flats[i + 1]))]

ProjectiveGeometryDesign(n, d, q, sorts) ==
    LET points == subspaces(q, n + 1, 1)
        flats == subspaces(q, n + 1, d + 1)
        blcks == GeometryBlocks(points, flats)
        v == (Pow(q, n + 1) - 1) \div (q - 1)
    IN  BlockDesign(v, blcks, TRUE, sorts)

(***************************************************************************)
(* The arguments a caller passes: a list of blocks or rows, as built or    *)
(* altered in one place.                                                   *)
(***************************************************************************)
How(kind, i, j) == [kind |-> kind, i |-> i, j |-> j]

\* "as built"; "drop": without item i; "shorten": item i without its last entry;
\* "extend": item i with the entry ext added; "repeat": item i replaced by a copy
\* of item j
Alter(xs, how, ext) ==
    LET i == how.i
    IN  CASE how.kind = "drop" ->
                 [k \in 1..(Len(xs) - 1) |-> IF k < i THEN xs[k] ELSE xs[k + 1]]
          [] how.kind = "shorten" -> [xs EXCEPT ![i] = SubSeq(xs[i], 1, Len(xs[i]) - 1)]
          [] how.kind = "extend" -> [xs EXCEPT ![i] = Append(xs[i], ext)]
          [] how.kind = "repeat" -> [xs EXCEPT ![i] = xs[how.j]]
          [] OTHER -> xs

\* the alterations explored: at the first and at the last item
Alterations(xs) ==
    LET ends == {1, Len(xs)}
    IN  {How("as built", 0, 0)}
        \cup {How(kind, i, 0) : kind \in {"drop", "shorten", "extend"}, i \in ends}
        \cup {How("repeat", i, j) : i \in ends, j \in {1, 2} \ ends}
        \cup {How("repeat", 1, 2)}

\* the smallest point that item i of the blocks does not hold
FreshPoint(blks, how, v) ==
    IF how.kind = "extend"
    THEN CHOOSE x \in 0..v : x \notin Range(blks[how.i]) /\
                             \A y \in 0..(x - 1) : y \in Range(blks[how.i])
    ELSE 0

(***************************************************************************)
(* The session: one call of tdesign_params, of projective_plane or of      *)
(* ProjectiveGeometryDesign; or a design built (by the Desarguesian        *)
(* builder, or by BlockDesign from a caller's blocks), converted to an     *)
(* orthogonal array and, for a Desarguesian plane, converted back.         *)
(***************************************************************************)
Nothing == [kind |-> "none"]

Call(op, args, check) == [op |-> op, args |-> args, check |-> check]

Init ==
    /\ pc = "start"
    /\ sortsBlocks \in BOOLEAN
    /\ trail = <<>>
    /\ result = Nothing
    /\ pplane = Nothing
    /\ oa = <<>>

CallTdesignParams ==
    /\ pc = "start"
    /\ \E v \in 1..MaxV : \E k \in 1..v : \E t \in 1..k : \E L \in 1..MaxLambda :
          /\ result' = tdesign_params(t, v, k, L)
          /\ trail' = Append(trail, Call("tdesign_params", <<t, v, k, L>>, FALSE))
    /\ pc' = "done"
    /\ UNCHANGED <<sortsBlocks, pplane, oa>>

CallProjectivePlane ==
    /\ pc = "start"
    /\ \E n \in MinOrder..MaxOrder : \E r \in projective_plane(n, sortsBlocks) :
          /\ result' = r
          /\ trail' = Append(trail, Call("projective_plane", <<n>>, TRUE))
    /\ pc' = "done"
    /\ UNCHANGED <<sortsBlocks, pplane, oa>>

GeometryInputs ==
    {g \in (1..MaxDim) \X (0..MaxDim) \X {2, 3} :
        g[2] <= g[1] /\ Pow(g[3], g[1] + 1) <= MaxVectors}

CallProjectiveGeometryDesign ==
    /\ pc = "start"
    /\ \E g \in GeometryInputs : \E r \in ProjectiveGeometryDesign(g[1], g[2], g[3], sortsBlocks) :
          /\ result' = r
          /\ trail' = Append(trail, Call("ProjectiveGeometryDesign", g, TRUE))
    /\ pc' = "done"
    /\ UNCHANGED <<sortsBlocks, pplane, oa>>

CallDesarguesian ==
    /\ pc = "start"
    /\ \E n \in 1..MaxFieldOrder : \E check \in BOOLEAN :
       \E r \in DesarguesianProjectivePlaneDesign(n, check, sortsBlocks) :
          /\ result' = r
          /\ trail' = Append(trail, Call("DesarguesianProjectivePlaneDesign", <<n>>, check))
          /\ pplane' = IF r.kind = "design" THEN r ELSE pplane
          /\ pc' = IF r.kind = "design" THEN "plane" ELSE "done"
    /\ UNCHANGED <<sortsBlocks, oa>>

CallBlockDesign ==
    /\ pc = "start"
    /\ \E n \in 2..MaxUserOrder : \E test \in BOOLEAN :
       LET built == DesarguesianBlocks(n)
           v == n * n + n + 1
       IN  \E how \in Alterations(built) :
           \E r \in BlockDesign(v, Alter(built, how, FreshPoint(built, how, v)), test, sortsBlocks) :
              /\ result' = r
              /\ trail' = Append(trail, Call("BlockDesign", [n |-> n, how |-> how], test))
              /\ pplane' = IF r.kind = "design" THEN r ELSE pplane
              /\ pc' = IF r.kind = "design" THEN "plane" ELSE "done"
    /\ UNCHANGED <<sortsBlocks, oa>>

CallPlaneToOA ==
    /\ pc = "plane"
    /\ \E pt \in {None} \cup (0..pplane.v) : \E check \in BOOLEAN :
       LET r == projective_plane_to_OA(pplane, pt, check)
       IN  /\ result' = r
           /\ trail' = Append(trail, Call("projective_plane_to_OA", <<pt>>, check))
           /\ pplane' = [pplane EXCEPT !.blcks = BlocksAfterToOA(pplane, pt)]
           /\ oa' = IF r.kind = "array" THEN r.rows ELSE oa
           /\ pc' = IF r.kind = "array" /\ trail[1].op = "DesarguesianProjectivePlaneDesign"
                    THEN "oa" ELSE "done"
    /\ UNCHANGED sortsBlocks

CallOAToPlane ==
    /\ pc = "oa"
    /\ \E how \in Alterations(oa) : \E check \in BOOLEAN :
       \E r \in OA_to_projective_plane(Alter(oa, how, 0), check, sortsBlocks) :
          /\ result' = r
          /\ trail' = Append(trail, Call("OA_to_projective_plane", how, check))
    /\ pc' = "done"
    /\ UNCHANGED <<sortsBlocks, pplane, oa>>

\* the same call once more on the same object: same pt, check as the caller likes
CallPlaneToOAAgain ==
    /\ pc \in {"oa", "done"}
    /\ Len(trail) = 2 /\ trail[2].op = "projective_plane_to_OA"
    /\ \E check \in BOOLEAN :
       LET pt == trail[2].args[1]
           r == projective_plane_to_OA(pplane, pt, check)
       IN  /\ result' = r
           /\ trail' = Append(trail, Call("projective_plane_to_OA", <<pt>>, check))
           /\ pplane' = [pplane EXCEPT !.blcks = BlocksAfterToOA(pplane, pt)]
           /\ oa' = IF r.kind = "array" THEN r.rows ELSE oa
    /\ pc' = "done"
    /\ UNCHANGED sortsBlocks

Next ==
    \/ CallTdesignParams
    \/ CallProjectivePlane
    \/ CallProjectiveGeometryDesign
    \/ CallDesarguesian
    \/ CallBlockDesign
    \/ CallPlaneToOA
    \/ CallPlaneToOAAgain
    \/ CallOAToPlane

Spec == Init /\ [][Next]_vars

(***************************************************************************)
(* Properties.                                                             *)
(***************************************************************************)
Prime(p) == p >= 2 /\ \A d \in 2..(p - 1) : p % d # 0

\* n = p^e for a prime p and e >= 1: n has exactly one prime divisor
PrimePower(n) == Cardinality({p \in 2..n : Prime(p) /\ n % p = 0}) = 1

\* a design on the points 0..n^2+n with n^2+n+1 blocks of n+1 distinct points,
\* any two of which meet in exactly one point
PlaneOfOrder(d, n) ==
    LET B == Table([i \in 1..Len(d.blcks) |-> Range(d.blcks[i])])
        np == n * n + n + 1
    IN  /\ d.v = np
        /\ Len(d.blcks) = np
        /\ \A i \in 1..np : Len(d.blcks[i]) = n + 1 /\ Cardinality(B[i]) = n + 1
        /\ \A i \in 1..np : B[i] \subseteq 0..(n * n + n)
        /\ \A i \in 1..np : \A j \in (i + 1)..np : Cardinality(B[i] \cap B[j]) = 1

\* n^2 rows of width n+1 over 0..n-1 such that in every two distinct columns
\* each ordered pair of symbols is met in exactly one row
OrthogonalRows(rows, n) ==
    /\ Len(rows) = n * n
    /\ \A r \in 1..Len(rows) : Len(rows[r]) = n + 1
    /\ \A r \in 1..Len(rows) : \A c \in 1..(n + 1) : rows[r][c] \in 0..(n - 1)
    /\ \A c1 \in 1..(n + 1) : \A c2 \in 1..(n + 1) : c1 # c2 =>
          \A a \in 0..(n - 1) : \A b \in 0..(n - 1) :
              \E r \in 1..Len(rows) :
                  /\ rows[r][c1] = a /\ rows[r][c2] = b
                  /\ \A r2 \in 1..Len(rows) :
                        (rows[r2][c1] = a /\ rows[r2][c2] = b) => r2 = r

AfterDesarguesian ==
    Len(trail) = 1 /\ trail[1].op = "DesarguesianProjectivePlaneDesign"

AfterToOAOfDesarguesian ==
    /\ Len(trail) = 2
    /\ trail[1].op = "DesarguesianProjectivePlaneDesign"
    /\ trail[2].op = "projective_plane_to_OA"

\* C1: for every prime power n, DesarguesianProjectivePlaneDesign(n) returns a
\* design on the points 0..n^2+n with n^2+n+1 blocks, each of n+1 distinct
\* points, any two distinct blocks meeting in exactly one point.
C1_DesarguesianIsPlane ==
    (AfterDesarguesian /\ PrimePower(trail[1].args[1]))
        => (result.kind = "design" /\ PlaneOfOrder(result, trail[1].args[1]))

\* the plane over the field of 4 elements, which is no prime field, was built
C1_Witness ==
    AfterDesarguesian /\ trail[1].args[1] = 4 /\ result.kind = "design"

\* C3: for every point pt of a Desarguesian plane of order n, given or left to
\* its default, projective_plane_to_OA returns n^2 rows of width n+1 over
\* 0..n-1 in which every two distinct columns show each ordered pair once.
C3_ToOAIsOrthogonal ==
    (AfterToOAOfDesarguesian /\ trail[2].args[1] # pplane.v)
        => (result.kind = "array" /\ OrthogonalRows(result.rows, trail[1].args[1]))

\* an array was returned for a point other than the default one, on a sloped
\* line of the plane of order 4
C3_Witness ==
    /\ AfterToOAOfDesarguesian
    /\ trail[1].args[1] = 4
    /\ trail[2].args[1] = 7
    /\ result.kind = "array"
    /\ Len(result.rows) = 16

\* C9: the plane of order 2 has 7 points and 7 blocks and its array for the
\* default point 6 has exactly the rows 000, 011, 101, 110; the array of the
\* plane of order 3 for its default point 12 has the 9 rows of the doctest.
C9_LiteralArrays ==
    AfterToOAOfDesarguesian =>
        /\ (trail[1].args[1] = 2 /\ trail[2].args[1] \in {None, 6}) =>
              /\ pplane.v = 7 /\ Len(pplane.blcks) = 7
              /\ result.kind = "array"
              /\ Len(result.rows) = 4
              /\ Range(result.rows) = {<<0, 0, 0>>, <<0, 1, 1>>, <<1, 0, 1>>, <<1, 1, 0>>}
        /\ (trail[1].args[1] = 3 /\ trail[2].args[1] \in {None, 12}) =>
              /\ pplane.v = 13 /\ Len(pplane.blcks) = 13
              /\ result.kind = "array"
              /\ Len(result.rows) = 9
              /\ Range(result.rows) =
                    {<<0, 0, 0, 0>>, <<0, 1, 2, 1>>, <<0, 2, 1, 2>>,
                     <<1, 0, 2, 2>>, <<1, 1, 1, 0>>, <<1, 2, 0, 1>>,
                     <<2, 0, 1, 1>>, <<2, 1, 0, 2>>, <<2, 2, 2, 0>>}

\* the array of the plane of order 3 was returned for the default point
C9_Witness ==
    /\ AfterToOAOfDesarguesian
    /\ trail[1].args[1] = 3
    /\ trail[2].args[1] = None
    /\ result.kind = "array"

AfterRoundTrip ==
    /\ Len(trail) = 3
    /\ trail[1].op = "DesarguesianProjectivePlaneDesign"
    /\ trail[2].op = "projective_plane_to_OA"
    /\ trail[3].op = "OA_to_projective_plane"

\* C2: OA_to_projective_plane of the array that projective_plane_to_OA returns
\* for a Desarguesian plane of order n (default point, array passed on as it
\* is), when one is returned, is again a projective plane of order n.
C2_RoundTripIsPlane ==
    (AfterRoundTrip /\ trail[2].args[1] = None /\ trail[3].args.kind = "as built"
        /\ result.kind = "design")
        => PlaneOfOrder(result, trail[1].args[1])

SumOfTwoSquares(n) == \E a \in 0..n : \E b \in 0..n : a * a + b * b = n

RyserChowlaExcludes(n) == (n % 4) \in {1, 2} /\ ~SumOfTwoSquares(n)

\* C4: projective_plane(n) raises EmptySetError when n <= 1, when n = 10 and
\* when n mod 4 is 1 or 2 and n is no sum of two squares (also when n is no
\* prime power); otherwise it raises NotImplementedError when n is no prime
\* power; otherwise it returns the Desarguesian plane of order n.  6, 10 and
\* 14 raise EmptySetError, 12 raises NotImplementedError, 2, 3, 4, 5 give a plane.
C4_ExistenceDispatch ==
    (Len(trail) = 1 /\ trail[1].op = "projective_plane") =>
        LET n == trail[1].args[1]
        IN  /\ IF n <= 1 THEN result = Raise("EmptySetError", "order <= 1")
               ELSE IF n = 10 THEN result = Raise("EmptySetError", "order 10")
               ELSE IF RyserChowlaExcludes(n)
                    THEN result = Raise("EmptySetError", "Ryser-Chowla")
               ELSE IF ~PrimePower(n) THEN result = Raise("NotImplementedError", "unknown")
               ELSE /\ result.kind = "design"
                    /\ PlaneOfOrder(result, n)
                    /\ result \in DesarguesianProjectivePlaneDesign(n, TRUE, sortsBlocks)
            /\ n \in {6, 10, 14} => (result.kind = "error" /\ result.err = "EmptySetError")
            /\ n = 12 => (result.kind = "error" /\ result.err = "NotImplementedError")
            /\ n \in {2, 3, 4, 5} => result.kind = "design"

\* order 14, no prime power, is refused by the Bruck-Ryser-Chowla test
C4_Witness ==
    /\ Len(trail) = 1 /\ trail[1].op = "projective_plane"
    /\ trail[1].args[1] = 14
    /\ result = Raise("EmptySetError", "Ryser-Chowla")

\* C5: the design ProjectiveGeometryDesign(n, d, F) returns is on the v points
\* and has one block per (d+1)-dimensional flat, the block of a flat being the
\* set of the indices (each in 0..v-1) of the points the flat contains.
C5_BlocksAreFlats ==
    (Len(trail) = 1 /\ trail[1].op = "ProjectiveGeometryDesign"
        /\ result.kind = "design") =>
        LET n == trail[1].args[1]
            d == trail[1].args[2]
            q == trail[1].args[3]
            points == subspaces(q, n + 1, 1)
            flats == subspaces(q, n + 1, d + 1)
            v == (Pow(q, n + 1) - 1) \div (q - 1)
            on(i) == {j \in 0..(Len(points) - 1) : points[j + 1] \subseteq flats[i]}
        IN  /\ result.v = v /\ Len(points) = v
            /\ Len(result.blcks) = Len(flats)
            /\ \A i \in 1..Len(result.blcks) : Range(result.blcks[i]) \subseteq 0..(v - 1)
            /\ {Range(result.blcks[i]) : i \in 1..Len(result.blcks)}
                   = {on(i) : i \in 1..Len(flats)}

\* a block list that is no projective plane by its count or its block sizes,
\* whichever block the order is read from
MalformedPlane(blcks) ==
    /\ Len(blcks) > 0
    /\ \E i \in 1..Len(blcks) :
          LET n == Len(blcks[i]) - 1
          IN  \/ Len(blcks) # n * n + n + 1
              \/ \E j \in 1..Len(blcks) : Len(blcks[j]) # n + 1

\* C6: projective_plane_to_OA raises its assertion error, and returns no
\* array, whenever the number of blocks is not n^2+n+1 or a block has not
\* n+1 points, n+1 being the size of a block; for every pt and either check.
C6_MalformedPlaneRejected ==
    [][(pc = "plane" /\ MalformedPlane(pplane.blcks)) => result' = Err("AssertionError")]_vars

\* the first stored block is the short one, and the call was refused
C6_Witness ==
    /\ Len(trail) = 2 /\ trail[1].op = "BlockDesign" /\ trail[2].op = "projective_plane_to_OA"
    /\ Len(pplane.blcks) = 7
    /\ Len(pplane.blcks[1]) = 2
    /\ ~trail[2].check
    /\ result = Err("AssertionError")

\* the array handed to OA_to_projective_plane in the last call
OAArgument == Alter(oa, trail[3].args, 0)

\* C7 as stated: OA_to_projective_plane fails whenever the number of rows is
\* not n^2 or the rows have not all the width n+1 (n+1 the width of the first
\* row), with check and without.
C7_BadArrayRejected ==
    (Len(trail) = 3 /\ trail[3].op = "OA_to_projective_plane") =>
        LET OA == OAArgument
            n == Len(OA[1]) - 1
        IN  (Len(OA) = 0 \/ Len(OA) # n * n \/ \E r \in 1..Len(OA) : Len(OA[r]) # n + 1)
                => result.kind = "error"

\* C7 amended: OA_to_projective_plane fails whenever the number of rows is not
\* n^2 (n+1 the width of the first row), with check and without; the widths
\* of the other rows are not compared: without check an array of n^2 rows is
\* turned into a design of n^2+n+1 blocks whatever those widths are.
C7_RowCountRejected ==
    (Len(trail) = 3 /\ trail[3].op = "OA_to_projective_plane") =>
        LET OA == OAArgument
            n == Len(OA[1]) - 1
        IN  /\ Len(OA) # n * n => result = Err("AssertionError")
            /\ (Len(OA) = n * n /\ ~trail[3].check) =>
                  /\ result.kind = "design"
                  /\ Len(result.blcks) = n * n + n + 1
                  /\ \A r \in 1..Len(OA) :
                        \E i \in 1..Len(result.blcks) : Len(result.blcks[i]) = Len(OA[r])

\* an array that lost its last row was refused without check
C7_Witness ==
    /\ Len(trail) = 3 /\ trail[3].op = "OA_to_projective_plane"
    /\ trail[3].args.kind = "drop"
    /\ ~trail[3].check
    /\ Len(OAArgument) = 8
    /\ result = Err("AssertionError")

\* the number of s-element subsets of an n-element set
Subsets(n, s) == Cardinality({S \in SUBSET (1..n) : Cardinality(S) = s})

\* C8: for positive t <= k <= v and lambda, tdesign_params(t, v, k, lambda) is
\* (t, v, b, r, k, lambda) with b the floor of lambda*C(v,t)/C(k,t) and r the
\* floor of lambda*C(v-1,t-1)/C(k-1,t-1); tdesign_params(2,7,3,1) is
\* (2,7,7,3,3,1); when both quotients are exact, b*k = v*r.
C8_DerivedParameters ==
    (Len(trail) = 1 /\ trail[1].op = "tdesign_params") =>
        LET t == trail[1].args[1]
            v == trail[1].args[2]
            k == trail[1].args[3]
            L == trail[1].args[4]
            b == result.val[3]
            r == result.val[4]
            bx == L * Subsets(v, t)
            by == Subsets(k, t)
            rx == L * Subsets(v - 1, t - 1)
            ry == Subsets(k - 1, t - 1)
        IN  /\ result.kind = "params"
            /\ Len(result.val) = 6
            /\ <<result.val[1], result.val[2], result.val[5], result.val[6]>> = <<t, v, k, L>>
            /\ b * by <= bx /\ bx < (b + 1) * by
            /\ r * ry <= rx /\ rx < (r + 1) * ry
            /\ (<<t, v, k, L>> = <<2, 7, 3, 1>>) => result.val = <<2, 7, 7, 3, 3, 1>>
            /\ (bx % by = 0 /\ rx % ry = 0) => b * k = v * r

\* a call whose second quotient, 3/2, is not exact: tdesign_params(2, 4, 3, 1)
C8_Witness ==
    /\ Len(trail) = 1 /\ trail[1].op = "tdesign_params"
    /\ trail[1].args = <<2, 4, 3, 1>>
    /\ result.val = <<2, 4, 2, 1, 3, 1>>

\* C10: with check, projective_plane_to_OA returns no array that is not an
\* orthogonal array OA(n+1, n, 2).
C10_CheckedArrayIsOrthogonal ==
    (Len(trail) = 2 /\ trail[2].op = "projective_plane_to_OA"
        /\ trail[2].check /\ result.kind = "array")
        => OrthogonalRows(result.rows, Len(pplane.blcks[1]) - 1)

(***************************************************************************)
(* C11.  The existence tests of projective_plane gate the builder soundly: *)
(* for every order n >= 2, a prime power n is refused neither with         *)
(* EmptySetError nor with NotImplementedError and a plane comes back; any  *)
(* call that gets as far as DesarguesianProjectivePlaneDesign (its answer  *)
(* is a design or an error other than those two) has a prime power order;  *)
(* and the field's ValueError never comes out of projective_plane.         *)
(***************************************************************************)
Refused == result.kind = "error" /\ result.err \in {"EmptySetError", "NotImplementedError"}

C11_OracleGatesBuilder ==
    (Len(trail) = 1 /\ trail[1].op = "projective_plane" /\ trail[1].args[1] >= 2)
        => LET n == trail[1].args[1]
           IN  /\ PrimePower(n) => (~Refused /\ result.kind = "design")
               /\ ~Refused => PrimePower(n)
               /\ ~(result.kind = "error" /\ result.err = "ValueError")

\* order 9 = 3^2: 9 mod 4 = 1 and 9 = 0^2 + 3^2, the plane of 91 blocks is built
C11_Witness ==
    /\ Len(trail) = 1 /\ trail[1].op = "projective_plane" /\ trail[1].args = <<9>>
    /\ result.kind = "design" /\ Len(result.blcks) = 91

(***************************************************************************)
(* C12.  projective_plane_to_OA leaves its argument as it was: over any    *)
(* call of it, for any plane, any pt and either value of check, the block  *)
(* list of pplane is the same before and after (the blocks through pt      *)
(* included); and a second call on the same plane with the same pt gives   *)
(* the answer of the first, whatever the value of check in either call.    *)
(***************************************************************************)
C12_InputUntouched ==
    [][(trail' # trail /\ trail'[Len(trail')].op = "projective_plane_to_OA")
          => /\ pplane' = pplane
             /\ (Len(trail) = 2 /\ trail[2].op = "projective_plane_to_OA")
                    => result' = result]_vars

\* two calls with pt = 0, one checked and one not, on the plane of order 3: the
\* four blocks through 0 still hold 0 and the array of 9 rows has come back
C12_Witness ==
    /\ Len(trail) = 3
    /\ trail[1].op = "DesarguesianProjectivePlaneDesign" /\ trail[1].args = <<3>>
    /\ trail[2].op = "projective_plane_to_OA" /\ trail[3].op = "projective_plane_to_OA"
    /\ trail[2].args = <<0>> /\ trail[3].args = <<0>>
    /\ trail[2].check /\ ~trail[3].check
    /\ Cardinality({i \in 1..Len(pplane.blcks) : Contains(pplane.blcks[i], 0)}) = 4
    /\ result.kind = "array" /\ Len(result.rows) = 9 /\ result.rows = oa

====
